---------------------------- MODULE Spec2Model ----------------------------
(***************************************************************************)
(* A model of src/main.py (FinTrack Expense Analyzer): the value and       *)
(* category normalizers, the food classifier, the column detector and the  *)
(* analyze_expenses pipeline.                                              *)
(*                                                                         *)
(* Text is a sequence of one-character strings.  A cell of a DataFrame is  *)
(* a record [k, s, n]: k = "nan" (missing), "str" (text s) or "num" (the   *)
(* float n).  A float is modelled as an exact decimal [m, e] = m * 10^e,   *)
(* normalised so that m has no trailing zero; binary representation error  *)
(* of float64 is not modelled.                                             *)
(***************************************************************************)
EXTENDS Integers, Sequences, FiniteSets, TLC

VARIABLES
    pc,            \* the pipeline's position: the next stage, or "done"
    upload,        \* the request: what file.read / decode / read_csv will give
    csv_string,    \* whether the bytes have been decoded
    df,            \* the DataFrame: [columns, data]
    amount_col,    \* detected amount column (None when unresolved)
    category_col,  \* detected category column (None when unresolved)
    food_mask,     \* boolean mask over the rows
    food_expenses, \* the rows the mask keeps
    total,         \* total_food_spending, a cell
    raised,        \* history: the exception raised inside the outer try
    outcome,       \* what the caller gets: a result or an HTTP error
    stages,        \* history: the stages entered, in order
    arg,           \* unit specifications: the argument of the call
    ret,           \* unit specifications: the values returned
    unit           \* unit specifications: position

vars == <<pc, upload, csv_string, df, amount_col, category_col, food_mask,
          food_expenses, total, raised, outcome, stages, arg, ret, unit>>

pipeVars == <<pc, upload, csv_string, df, amount_col, category_col, food_mask,
              food_expenses, total, raised, outcome, stages>>

unitVars == <<arg, ret, unit>>

---------------------------------------------------------------------------
(* Bounds of the model *)

MaxRows == 2

MaxCols == 3

MaxAmountLen == 4

MaxCategoryLen == 5

---------------------------------------------------------------------------
(* Text *)

UpperChars == <<"A","B","C","D","E","F","G","H","I","J","K","L","M",
                "N","O","P","Q","R","S","T","U","V","W","X","Y","Z">>

LowerChars == <<"a","b","c","d","e","f","g","h","i","j","k","l","m",
                "n","o","p","q","r","s","t","u","v","w","x","y","z">>

DigitChars == <<"0","1","2","3","4","5","6","7","8","9">>

\* str.isspace / the regex class \s
IsSpace(c) == c \in {" ", "\t"}

\* \d
IsDigit(c) == \E i \in 1..Len(DigitChars) : DigitChars[i] = c

DigitVal(c) == (CHOOSE i \in 1..Len(DigitChars) : DigitChars[i] = c) - 1

LowerChar(c) ==
    IF \E i \in 1..Len(UpperChars) : UpperChars[i] = c
    THEN LowerChars[CHOOSE i \in 1..Len(UpperChars) : UpperChars[i] = c]
    ELSE c

\* str.lower()
lower(s) == [i \in 1..Len(s) |-> LowerChar(s[i])]

RECURSIVE lstrip(_)
lstrip(s) == IF s # <<>> /\ IsSpace(Head(s)) THEN lstrip(Tail(s)) ELSE s

RECURSIVE rstrip(_)
rstrip(s) ==
    IF s # <<>> /\ IsSpace(s[Len(s)]) THEN rstrip(SubSeq(s, 1, Len(s) - 1)) ELSE s

\* str.strip()
strip(s) == rstrip(lstrip(s))

\* re.sub(r'[...]', '', s): delete every character of s that is in drop
DeleteChars(s, drop) ==
    LET Keep(c) == c \notin drop IN SelectSeq(s, Keep)

\* re.sub(r'\s+', ' ', s): every maximal run of whitespace becomes one space
RECURSIVE CollapseSpaces(_)
CollapseSpaces(s) ==
    IF s = <<>> THEN <<>>
    ELSE IF IsSpace(Head(s)) THEN <<" ">> \o CollapseSpaces(lstrip(s))
    ELSE <<Head(s)>> \o CollapseSpaces(Tail(s))

\* the Python expression  k in s  for strings
Contains(s, k) ==
    \E i \in 0..(Len(s) - Len(k)) : SubSeq(s, i + 1, i + Len(k)) = k

startswith(s, c) == s # <<>> /\ s[1] = c

endswith(s, c) == s # <<>> /\ s[Len(s)] = c

---------------------------------------------------------------------------
(* Floats as exact decimals *)

RECURSIVE Pow10(_)
Pow10(k) == IF k <= 0 THEN 1 ELSE 10 * Pow10(k - 1)

RECURSIVE Norm(_, _)
Norm(m, e) ==
    IF m = 0 THEN [m |-> 0, e |-> 0]
    ELSE IF m % 10 = 0 THEN Norm(m \div 10, e + 1)
    ELSE [m |-> m, e |-> e]

Zero == [m |-> 0, e |-> 0]

Min(a, b) == IF a <= b THEN a ELSE b

\* float addition
DecAdd(a, b) ==
    LET e == Min(a.e, b.e)
    IN  Norm(a.m * Pow10(a.e - e) + b.m * Pow10(b.e - e), e)

\* the integer nearest to n / d (d > 0), ties to the even one
RoundHalfEven(n, d) ==
    LET q == n \div d
        r == n % d
    IN  IF 2 * r < d THEN q
        ELSE IF 2 * r > d THEN q + 1
        ELSE IF q % 2 = 0 THEN q ELSE q + 1

\* round(x, 2)
round2(x) ==
    IF x.e >= -2 THEN x
    ELSE Norm(RoundHalfEven(x.m, Pow10(-2 - x.e)), -2)

RECURSIVE DigitsToInt(_)
DigitsToInt(s) ==
    IF s = <<>> THEN 0
    ELSE 10 * DigitsToInt(SubSeq(s, 1, Len(s) - 1)) + DigitVal(s[Len(s)])

CountChar(s, c) == Cardinality({i \in 1..Len(s) : s[i] = c})

\* the digits-and-point body of a float literal: at most one point, a digit
IsUnsignedNumeral(s) ==
    /\ \A i \in 1..Len(s) : IsDigit(s[i]) \/ s[i] = "."
    /\ CountChar(s, ".") <= 1
    /\ \E i \in 1..Len(s) : IsDigit(s[i])

\* the value of such a body: its digits, scaled by the digits after the point
UnsignedValue(s) ==
    LET frac == IF CountChar(s, ".") = 0 THEN 0
                ELSE Len(s) - (CHOOSE i \in 1..Len(s) : s[i] = ".")
    IN  Norm(DigitsToInt(DeleteChars(s, {"."})), -frac)

\* float(s) for s made of digits, '.' and '-': [ok, value]; ok = FALSE is
\* ValueError.  Python accepts an optional sign, then digits with at most
\* one point and at least one digit.
float(s) ==
    LET neg  == startswith(s, "-")
        body == IF neg THEN Tail(s) ELSE s
    IN  IF IsUnsignedNumeral(body)
        THEN [ok |-> TRUE,
              value |-> IF neg THEN Norm(-(UnsignedValue(body).m), UnsignedValue(body).e)
                        ELSE UnsignedValue(body)]
        ELSE [ok |-> FALSE, value |-> Zero]

---------------------------------------------------------------------------
(* Cells *)

NaN == [k |-> "nan", s |-> <<>>, n |-> Zero]

StrCell(s) == [k |-> "str", s |-> s, n |-> Zero]

NumCell(n) == [k |-> "num", s |-> <<>>, n |-> n]

\* pd.isna(x)
isna(x) == x.k = "nan"

\* the column name that stands for Python's None
None == <<"None">>

---------------------------------------------------------------------------
(* clean_amount, lines 24-46 *)

CurrencyAndComma == {"$", "€", "£", "¥", "₹", ","}

\* the characters the regex [^\d\.-] keeps
IsNumericChar(c) == IsDigit(c) \/ c = "." \/ c = "-"

\* a clean_amount that leaves accounting parentheses to the final regex
MutantParenthesisedKept(s) == s

\* lines 36-37
Parenthesised(s) ==
    IF startswith(s, "(") /\ endswith(s, ")")
    THEN <<"-">> \o SubSeq(s, 2, Len(s) - 1)
    ELSE s

\* lines 30-40: the text handed to float()
AmountText(x) ==
    SelectSeq(Parenthesised(DeleteChars(strip(x.s), CurrencyAndComma)), IsNumericChar)

\* lines 42-46: float(), with ValueError caught and turned into 0.0
ParseOrZero(s) ==
    IF float(s).ok THEN [exc |-> "none", value |-> float(s).value]
    ELSE [exc |-> "none", value |-> Zero]

\* clean_amount(amount_str): [exc, value]; exc = "none" when it returns
clean_amount(x) ==
    IF isna(x) \/ (x.k = "str" /\ x.s = <<>>)
    THEN [exc |-> "none", value |-> Zero]
    ELSE ParseOrZero(AmountText(x))

---------------------------------------------------------------------------
(* clean_category, lines 48-59 *)

\* a clean_category without the whitespace regex
MutantCleanCategoryNoCollapse(x) ==
    IF isna(x) THEN <<>> ELSE lower(strip(x.s))

clean_category(x) ==
    IF isna(x) THEN <<>>
    ELSE CollapseSpaces(lower(strip(x.s)))

---------------------------------------------------------------------------
(* is_food_category, lines 61-80 *)

food_keywords ==
    <<<<"f","o","o","d">>,
    <<"r","e","s","t","a","u","r","a","n","t">>,
    <<"d","i","n","i","n","g">>,
    <<"l","u","n","c","h">>,
    <<"d","i","n","n","e","r">>,
    <<"b","r","e","a","k","f","a","s","t">>,
    <<"c","a","f","e">>,
    <<"c","o","f","f","e","e">>,
    <<"s","n","a","c","k">>,
    <<"m","e","a","l">>,
    <<"g","r","o","c","e","r","y">>,
    <<"g","r","o","c","e","r","i","e","s">>,
    <<"c","a","t","e","r","i","n","g">>,
    <<"t","a","k","e","o","u","t">>,
    <<"d","e","l","i","v","e","r","y">>,
    <<"f","a","s","t"," ","f","o","o","d">>,
    <<"f","a","s","t","f","o","o","d">>>>

\* lines 76-78: the scan of the keyword list, in list order
RECURSIVE AnyKeywordIn(_, _)
AnyKeywordIn(keywords, s) ==
    IF keywords = <<>> THEN FALSE
    ELSE IF Contains(s, Head(keywords)) THEN TRUE
    ELSE AnyKeywordIn(Tail(keywords), s)

\* a classifier that wants the category to be a keyword, not to contain one
MutantIsFoodWholeWord(category) ==
    \E i \in 1..Len(food_keywords) : strip(lower(category)) = food_keywords[i]

is_food_category(category) ==
    LET category_clean == strip(lower(category))
    IN  IF category_clean = <<"f","o","o","d">> THEN TRUE
        ELSE AnyKeywordIn(food_keywords, category_clean)

---------------------------------------------------------------------------
(* Column detection, lines 119-136 *)

amount_keywords ==
    <<<<"a","m","o","u","n","t">>,
    <<"c","o","s","t">>,
    <<"p","r","i","c","e">>,
    <<"t","o","t","a","l">>,
    <<"s","u","m">>,
    <<"e","x","p","e","n","s","e">>>>

category_keywords ==
    <<<<"c","a","t","e","g","o","r","y">>,
    <<"t","y","p","e">>,
    <<"d","e","s","c","r","i","p","t","i","o","n">>,
    <<"i","t","e","m">>>>

\* line 120: df.columns.str.strip().str.lower()
NormalizeColumns(columns) == [i \in 1..Len(columns) |-> lower(strip(columns[i]))]

\* a detector that ranks by keyword: the first keyword some column contains
\* decides, and the first column containing it is taken
RECURSIVE MutantKeywordFirstMatch(_, _)
MutantKeywordFirstMatch(columns, keywords) ==
    IF keywords = <<>> THEN None
    ELSE IF \E i \in 1..Len(columns) : Contains(columns[i], Head(keywords))
    THEN columns[CHOOSE i \in 1..Len(columns) :
                    /\ Contains(columns[i], Head(keywords))
                    /\ \A j \in 1..(i - 1) : ~Contains(columns[j], Head(keywords))]
    ELSE MutantKeywordFirstMatch(columns, Tail(keywords))

\* lines 127-130 and 133-136: the first column one of the keywords is in
RECURSIVE FirstMatch(_, _)
FirstMatch(columns, keywords) ==
    IF columns = <<>> THEN None
    ELSE IF AnyKeywordIn(keywords, Head(columns)) THEN Head(columns)
    ELSE FirstMatch(Tail(columns), keywords)

DetectAmount(columns) == FirstMatch(columns, amount_keywords)

DetectCategory(columns) == FirstMatch(columns, category_keywords)

---------------------------------------------------------------------------
(* DataFrame operations used by analyze_expenses *)

NRows(d) == Len(d.data)

\* an emptiness test that looks at the columns only
MutantIsEmptyNoColumns(d) == Len(d.columns) = 0

\* DataFrame.empty: some axis has length 0
IsEmpty(d) == Len(d.columns) = 0 \/ Len(d.data) = 0

ColumnCount(d, name) == Cardinality({j \in 1..Len(d.columns) : d.columns[j] = name})

\* d[name] when the label is unique: the Series of its cells
GetColumn(d, name) ==
    LET j == CHOOSE j \in 1..Len(d.columns) : d.columns[j] = name
    IN  [i \in 1..NRows(d) |-> d.data[i][j]]

\* d[name] = values: overwrites the column(s) with that label, else appends one
SetColumn(d, name, values) ==
    IF ColumnCount(d, name) > 0
    THEN [d EXCEPT !.data = [i \in 1..NRows(d) |->
                              [j \in 1..Len(d.columns) |->
                                 IF d.columns[j] = name THEN values[i]
                                 ELSE d.data[i][j]]]]
    ELSE [columns |-> Append(d.columns, name),
          data    |-> [i \in 1..NRows(d) |-> Append(d.data[i], values[i])]]

\* d[mask]
FilterRows(d, mask) ==
    LET kept == SelectSeq([i \in 1..NRows(d) |-> i], LAMBDA i : mask[i])
    IN  [d EXCEPT !.data = [k \in 1..Len(kept) |-> d.data[kept[k]]]]

\* f'{col}_clean'
CleanName(col) == col \o <<"_","c","l","e","a","n">>

RECURSIVE SumFloats(_)
SumFloats(series) ==
    IF series = <<>> THEN Zero
    ELSE DecAdd(SumFloats(SubSeq(series, 1, Len(series) - 1)), series[Len(series)].n)

RECURSIVE ConcatStrings(_)
ConcatStrings(series) ==
    IF series = <<>> THEN <<>>
    ELSE Head(series).s \o ConcatStrings(Tail(series))

\* Series.sum() of a column of the given dtype.  Floats add up (0.0 when
\* there is none).  An object column of str concatenates, and its sum is
\* the int 0 when no row is left.
SeriesSum(series, dtype) ==
    IF dtype = "num" THEN NumCell(SumFloats(series))
    ELSE IF series = <<>> THEN NumCell(Zero)
    ELSE StrCell(ConcatStrings(series))

---------------------------------------------------------------------------
(* Exceptions and the handlers of analyze_expenses *)

NoException == [type |-> "none", status |-> 0, detail |-> ""]

\* raise HTTPException(status_code=..., detail=...)
HTTPException(status, detail) ==
    [type |-> "HTTPException", status |-> status, detail |-> detail]

\* any other exception
Exception(type) == [type |-> type, status |-> 0, detail |-> type]

NoOutcome == [kind |-> "none", status |-> 0, detail |-> "", answer |-> Zero]

Result(answer) == [kind |-> "result", status |-> 200, detail |-> "", answer |-> answer]

Error(status, detail) ==
    [kind |-> "error", status |-> status, detail |-> detail, answer |-> Zero]

\* lines 108-111: the handlers around pd.read_csv
ReadCsvHandler(exc) ==
    IF exc = "EmptyDataError" THEN HTTPException(400, "CSV file is empty")
    ELSE HTTPException(400, "Error reading CSV")

\* an outer try with the  except Exception  clause only
MutantOuterHandlerWrapsAll(exc) ==
    [kind |-> "error", status |-> 500, detail |-> "Internal server error",
     answer |-> Zero]

\* lines 168-172: the handlers of the outer try
OuterHandler(exc) ==
    IF exc.type = "HTTPException" THEN Error(exc.status, exc.detail)
    ELSE Error(500, "Internal server error")

---------------------------------------------------------------------------
(* Lines 147-149: the two derived columns *)

\* df[col].apply(f) raises when df[col] is a DataFrame (the label is on
\* several columns): f gets a whole column, and  if pd.isna(column)  is
\* "ValueError: The truth value of a Series is ambiguous".
ApplyCleanAmount(d, col) ==
    IF ColumnCount(d, col) > 1 THEN [exc |-> "ValueError", values |-> <<>>]
    ELSE LET r == [i \in 1..NRows(d) |-> clean_amount(GetColumn(d, col)[i])]
         IN  IF \E i \in 1..NRows(d) : r[i].exc # "none"
             THEN [exc |-> r[CHOOSE i \in 1..NRows(d) : r[i].exc # "none"].exc,
                   values |-> <<>>]
             ELSE [exc |-> "none", values |-> [i \in 1..NRows(d) |-> NumCell(r[i].value)]]

ApplyCleanCategory(d, col) ==
    IF ColumnCount(d, col) > 1 THEN [exc |-> "ValueError", values |-> <<>>]
    ELSE [exc |-> "none",
          values |-> [i \in 1..NRows(d) |-> StrCell(clean_category(GetColumn(d, col)[i]))]]

\* lines 148-149, in order: [exc, df]
CleanColumns(d, acol, ccol) ==
    LET a  == ApplyCleanAmount(d, acol)
        d1 == SetColumn(d, CleanName(acol), a.values)
        c  == ApplyCleanCategory(d1, ccol)
    IN  IF a.exc # "none" THEN [exc |-> a.exc, df |-> d]
        ELSE IF c.exc # "none" THEN [exc |-> c.exc, df |-> d1]
        ELSE [exc |-> "none", df |-> SetColumn(d1, CleanName(ccol), c.values)]

\* line 152: the mask; is_food_category calls .lower() on its argument,
\* which only a str has
FoodMask(d, ccol) ==
    LET series == GetColumn(d, CleanName(ccol))
    IN  IF \E i \in 1..Len(series) : series[i].k # "str"
        THEN [exc |-> "AttributeError", mask |-> <<>>]
        ELSE [exc |-> "none",
              mask |-> [i \in 1..Len(series) |-> is_food_category(series[i].s)]]

---------------------------------------------------------------------------
(* The requests *)

\* header rows as pd.read_csv gives them: names are unique before line 120
HeaderLists ==
    {<<<<"C","a","t","e","g","o","r","y">>, <<"A","m","o","u","n","t">>>>,
     <<<<"T","o","t","a","l"," ","C","o","s","t">>, <<"T","y","p","e">>>>,
     <<<<"D","a","t","e">>, <<"A","m","o","u","n","t">>>>,
     <<<<"C","a","t","e","g","o","r","y">>, <<"N","o","t","e","s"," ">>>>,
     <<<<"D","a","t","e">>, <<"N","o","t","e","s"," ">>>>,
     <<<<"I","t","e","m"," ","P","r","i","c","e">>>>,
     <<<<"E","x","p","e","n","s","e"," ","T","y","p","e">>, <<"A","m","o","u","n","t">>>>,
     <<<<"C","a","t","e","g","o","r","y">>, <<"I","t","e","m"," ","P","r","i","c","e">>>>,
     <<<<"C","a","t","e","g","o","r","y">>, <<"A","m","o","u","n","t">>, <<"A","M","O","U","N","T"," ">>>>,
     <<<<"T","y","p","e">>, <<"T","Y","P","E"," ">>, <<"C","o","s","t">>>>}

\* cell values as pd.read_csv gives them: text, or NaN for an empty cell
CellValues ==
    {StrCell(<<"L","u","n","c","h"," ","3">>), StrCell(<<"(","$","0",".","1","2","5",")">>), NaN}

NoTable == [columns |-> <<>>, data |-> <<>>]

\* read: whether file.read() returns; parse: "ok" or the exception of
\* pd.read_csv; columns, data: the DataFrame it gives
Upload(read, parse, columns, data) ==
    [read |-> read, parse |-> parse, columns |-> columns, data |-> data]

\* the body is unreadable, or is text pd.read_csv rejects
IsFailingUpload(u) ==
    \/ u = Upload("fault", "ok", <<>>, <<>>)
    \/ \E e \in {"EmptyDataError", "ParserError"} : u = Upload("ok", e, <<>>, <<>>)

\* the body is a CSV with a header row and 0..MaxRows data rows
IsTableUpload(u) ==
    \E h \in HeaderLists, n \in 0..MaxRows :
       \E d \in [1..n -> [1..Len(h) -> CellValues]] :
          u = Upload("ok", "ok", h, d)

---------------------------------------------------------------------------
(* analyze_expenses, lines 83-172, stage by stage *)

PipeIdle ==
    /\ csv_string = "" /\ df = NoTable /\ amount_col = None /\ category_col = None
    /\ food_mask = <<>> /\ food_expenses = NoTable /\ total = NaN
    /\ raised = NoException /\ outcome = NoOutcome /\ stages = <<>>

UnitIdle == arg = <<>> /\ ret = <<>> /\ unit = "idle"

Init ==
    /\ pc = "decode"
    /\ IsFailingUpload(upload) \/ IsTableUpload(upload)
    /\ PipeIdle
    /\ UnitIdle

Enter(stage) == stages' = Append(stages, stage)

\* an exception leaves the try block: the outer handlers decide the response
Raise(exc) ==
    /\ pc' = "done"
    /\ raised' = exc
    /\ outcome' = OuterHandler(exc)

\* lines 89-98.  The bytes decode as UTF-8 or, failing that, as latin-1,
\* which accepts every byte string: the cp1252 branch is never taken and
\* decoding never raises.
Decode ==
    /\ pc = "decode"
    /\ Enter("decode")
    /\ \/ /\ upload.read = "fault"
          /\ Raise(Exception("OSError"))
          /\ UNCHANGED csv_string
       \/ /\ upload.read = "ok"
          /\ csv_string' = "decoded"
          /\ pc' = "parse"
          /\ UNCHANGED <<raised, outcome>>
    /\ UNCHANGED <<upload, df, amount_col, category_col, food_mask, food_expenses, total>>
    /\ UNCHANGED unitVars

\* lines 101-111
Parse ==
    /\ pc = "parse"
    /\ Enter("parse")
    /\ \/ /\ upload.parse # "ok"
          /\ Raise(ReadCsvHandler(upload.parse))
          /\ UNCHANGED df
       \/ /\ upload.parse = "ok"
          /\ df' = [columns |-> upload.columns, data |-> upload.data]
          /\ pc' = "check_empty"
          /\ UNCHANGED <<raised, outcome>>
    /\ UNCHANGED <<upload, csv_string, amount_col, category_col, food_mask, food_expenses, total>>
    /\ UNCHANGED unitVars

\* lines 113-114
CheckEmpty ==
    /\ pc = "check_empty"
    /\ Enter("check_empty")
    /\ \/ /\ IsEmpty(df)
          /\ Raise(HTTPException(400, "CSV file contains no data"))
       \/ /\ ~IsEmpty(df)
          /\ pc' = "normalize_headers"
          /\ UNCHANGED <<raised, outcome>>
    /\ UNCHANGED <<upload, csv_string, df, amount_col, category_col, food_mask, food_expenses, total>>
    /\ UNCHANGED unitVars

\* line 120
NormalizeHeaders ==
    /\ pc = "normalize_headers"
    /\ Enter("normalize_headers")
    /\ df' = [df EXCEPT !.columns = NormalizeColumns(df.columns)]
    /\ pc' = "detect_columns"
    /\ UNCHANGED <<upload, csv_string, amount_col, category_col, food_mask, food_expenses,
                   total, raised, outcome>>
    /\ UNCHANGED unitVars

\* the two None checks in the other order
MutantMissingColumnCategoryFirst(acol, ccol) ==
    IF ccol = <<"None">>
    THEN [type |-> "HTTPException", status |-> 400,
          detail |-> "Could not identify category column in CSV"]
    ELSE IF acol = <<"None">>
    THEN [type |-> "HTTPException", status |-> 400,
          detail |-> "Could not identify amount column in CSV"]
    ELSE [type |-> "none", status |-> 0, detail |-> ""]

\* lines 138-142: the exception the two None checks raise, if any
MissingColumn(acol, ccol) ==
    IF acol = None
    THEN HTTPException(400, "Could not identify amount column in CSV")
    ELSE IF ccol = None
    THEN HTTPException(400, "Could not identify category column in CSV")
    ELSE NoException

\* lines 123-142
DetectColumns ==
    /\ pc = "detect_columns"
    /\ Enter("detect_columns")
    /\ amount_col' = DetectAmount(df.columns)
    /\ category_col' = DetectCategory(df.columns)
    /\ \/ /\ MissingColumn(amount_col', category_col') # NoException
          /\ Raise(MissingColumn(amount_col', category_col'))
       \/ /\ MissingColumn(amount_col', category_col') = NoException
          /\ pc' = "clean_data"
          /\ UNCHANGED <<raised, outcome>>
    /\ UNCHANGED <<upload, csv_string, df, food_mask, food_expenses, total>>
    /\ UNCHANGED unitVars

\* lines 147-149
CleanData ==
    /\ pc = "clean_data"
    /\ Enter("clean_data")
    /\ LET r == CleanColumns(df, amount_col, category_col)
       IN  \/ /\ r.exc # "none"
              /\ Raise(Exception(r.exc))
              /\ UNCHANGED df
           \/ /\ r.exc = "none"
              /\ df' = r.df
              /\ pc' = "filter_food"
              /\ UNCHANGED <<raised, outcome>>
    /\ UNCHANGED <<upload, csv_string, amount_col, category_col, food_mask, food_expenses, total>>
    /\ UNCHANGED unitVars

\* lines 152-153
FilterFood ==
    /\ pc = "filter_food"
    /\ Enter("filter_food")
    /\ LET r == FoodMask(df, category_col)
       IN  \/ /\ r.exc # "none"
              /\ Raise(Exception(r.exc))
              /\ UNCHANGED <<food_mask, food_expenses>>
           \/ /\ r.exc = "none"
              /\ food_mask' = r.mask
              /\ food_expenses' = FilterRows(df, r.mask)
              /\ pc' = "aggregate"
              /\ UNCHANGED <<raised, outcome>>
    /\ UNCHANGED <<upload, csv_string, df, amount_col, category_col, total>>
    /\ UNCHANGED unitVars

\* line 158
Aggregate ==
    /\ pc = "aggregate"
    /\ Enter("aggregate")
    /\ total' = SeriesSum(GetColumn(food_expenses, CleanName(amount_col)),
                          GetColumn(df, CleanName(amount_col))[1].k)
    /\ pc' = "emit"
    /\ UNCHANGED <<upload, csv_string, df, amount_col, category_col, food_mask,
                   food_expenses, raised, outcome>>
    /\ UNCHANGED unitVars

\* lines 162-166: round() of a str is a TypeError
Emit ==
    /\ pc = "emit"
    /\ Enter("emit")
    /\ \/ /\ total.k # "num"
          /\ Raise(Exception("TypeError"))
       \/ /\ total.k = "num"
          /\ pc' = "done"
          /\ outcome' = Result(round2(total.n))
          /\ UNCHANGED raised
    /\ UNCHANGED <<upload, csv_string, df, amount_col, category_col, food_mask,
                   food_expenses, total>>
    /\ UNCHANGED unitVars

Next ==
    \/ Decode
    \/ Parse
    \/ CheckEmpty
    \/ NormalizeHeaders
    \/ DetectColumns
    \/ CleanData
    \/ FilterFood
    \/ Aggregate
    \/ Emit

Spec == Init /\ [][Next]_vars

---------------------------------------------------------------------------
(* The functions on their own: one call of each on an argument *)

NoUpload == Upload("none", "none", <<>>, <<>>)

PipeUnused == pc = "unit" /\ upload = NoUpload /\ PipeIdle

AmountAlphabet == {"1", "0", ".", "-", "(", ")", "$", ",", " ", "a"}

NamedAmounts ==
    {StrCell(<<"$","1",",","2","3","4",".","5","6">>),
     StrCell(<<"(","5","0",".","0","0",")">>),
     StrCell(<<"€","9","9">>),
     StrCell(<<"n","/","a">>),
     StrCell(<<"$","1","2",".","5","0">>),
     StrCell(<<"8","0","0">>),
     StrCell(<<"(","5",".","0","0",")">>),
     StrCell(<<"₹"," ","7",".","5">>),
     StrCell(<<"-","-","5">>),
     StrCell(<<"1",".","2",".","3">>),
     StrCell(<<"£","(","2",")">>)}

IsAmountArg(x) ==
    \/ x = NaN
    \/ x \in NamedAmounts
    \/ \E k \in 0..MaxAmountLen : \E s \in [1..k -> AmountAlphabet] : x = StrCell(s)

InitAmount ==
    /\ PipeUnused
    /\ IsAmountArg(arg)
    /\ ret = [exc |-> "none", value |-> Zero]
    /\ unit = "clean_amount"

CallCleanAmount ==
    /\ unit = "clean_amount"
    /\ ret' = clean_amount(arg)
    /\ unit' = "returned"
    /\ UNCHANGED arg
    /\ UNCHANGED pipeVars

NextAmount == CallCleanAmount

SpecAmount == InitAmount /\ [][NextAmount]_vars

CategoryAlphabet == {"f", "o", "d", "F", " ", "\t"}

NamedCategories ==
    {StrCell(<<"R","e","s","t","a","u","r","a","n","t">>),
     StrCell(<<"O","f","f","i","c","e"," ","S","u","p","p","l","i","e","s">>),
     StrCell(<<"S","e","a","f","o","o","d"," ","M","a","r","k","e","t">>),
     StrCell(<<"F","O","O","D">>),
     StrCell(<<"F","i","n","e"," "," ","D","i","n","i","n","g">>),
     StrCell(<<"l","u","n","c","h">>),
     StrCell(<<"T","e","a","m"," ","D","i","n","n","e","r">>),
     StrCell(<<"b","r","e","a","k","f","a","s","t">>),
     StrCell(<<"C","a","f","e">>),
     StrCell(<<"c","o","f","f","e","e"," ","b","e","a","n","s">>),
     StrCell(<<"S","n","a","c","k","s">>),
     StrCell(<<"m","e","a","l","s">>),
     StrCell(<<"G","r","o","c","e","r","y">>),
     StrCell(<<"g","r","o","c","e","r","i","e","s">>),
     StrCell(<<"C","a","t","e","r","i","n","g">>),
     StrCell(<<"t","a","k","e","o","u","t">>),
     StrCell(<<"D","e","l","i","v","e","r","y"," ","f","e","e">>),
     StrCell(<<"f","a","s","t"," ","f","o","o","d">>),
     StrCell(<<"F","a","s","t","f","o","o","d">>),
     StrCell(<<"R","e","n","t">>),
     StrCell(<<" ","F","a","s","t","\t","F","o","o","d"," ">>)}

IsCategoryArg(x) ==
    \/ x = NaN
    \/ x \in NamedCategories
    \/ \E k \in 0..MaxCategoryLen : \E s \in [1..k -> CategoryAlphabet] : x = StrCell(s)

InitCategory ==
    /\ PipeUnused
    /\ IsCategoryArg(arg)
    /\ ret = [category |-> <<>>, food |-> FALSE, again |-> <<>>]
    /\ unit = "clean_category"

CallCleanCategory ==
    /\ unit = "clean_category"
    /\ ret' = [ret EXCEPT !.category = clean_category(arg)]
    /\ unit' = "is_food_category"
    /\ UNCHANGED arg
    /\ UNCHANGED pipeVars

CallIsFoodCategory ==
    /\ unit = "is_food_category"
    /\ ret' = [ret EXCEPT !.food = is_food_category(ret.category)]
    /\ unit' = "clean_category_again"
    /\ UNCHANGED arg
    /\ UNCHANGED pipeVars

CallCleanCategoryAgain ==
    /\ unit = "clean_category_again"
    /\ ret' = [ret EXCEPT !.again = clean_category(StrCell(ret.category))]
    /\ unit' = "returned"
    /\ UNCHANGED arg
    /\ UNCHANGED pipeVars

NextCategory ==
    \/ CallCleanCategory
    \/ CallIsFoodCategory
    \/ CallCleanCategoryAgain

SpecCategory == InitCategory /\ [][NextCategory]_vars

HeaderNames ==
    {<<"D","a","t","e">>,
     <<"C","a","t","e","g","o","r","y">>,
     <<"A","m","o","u","n","t"," ","(","$",")">>,
     <<"N","o","t","e","s"," ">>,
     <<"T","o","t","a","l"," ","C","o","s","t">>,
     <<"A","m","o","u","n","t">>,
     <<"T","y","p","e">>,
     <<"I","t","e","m"," ","P","r","i","c","e">>,
     <<"E","x","p","e","n","s","e"," ","T","y","p","e">>,
     <<"S","u","m","m","a","r","y">>}

IsInjective(s) == \A i, j \in 1..Len(s) : s[i] = s[j] => i = j

\* header rows of 1..MaxCols distinct names
IsHeaderArg(h) ==
    \E k \in 1..MaxCols : \E s \in [1..k -> HeaderNames] : IsInjective(s) /\ h = s

InitDetect ==
    /\ PipeUnused
    /\ IsHeaderArg(arg)
    /\ ret = [columns |-> <<>>, amount |-> None, category |-> None]
    /\ unit = "normalize"

CallNormalizeColumns ==
    /\ unit = "normalize"
    /\ ret' = [ret EXCEPT !.columns = NormalizeColumns(arg)]
    /\ unit' = "detect"
    /\ UNCHANGED arg
    /\ UNCHANGED pipeVars

CallDetect ==
    /\ unit = "detect"
    /\ ret' = [ret EXCEPT !.amount = DetectAmount(ret.columns),
                          !.category = DetectCategory(ret.columns)]
    /\ unit' = "returned"
    /\ UNCHANGED arg
    /\ UNCHANGED pipeVars

NextDetect ==
    \/ CallNormalizeColumns
    \/ CallDetect

SpecDetect == InitDetect /\ [][NextDetect]_vars

---------------------------------------------------------------------------
(* What the specification says, stated without the code's loops *)

\* section 4.3: the 17 food keywords
FoodKeywordSet ==
    {<<"f","o","o","d">>,
     <<"r","e","s","t","a","u","r","a","n","t">>,
     <<"d","i","n","i","n","g">>,
     <<"l","u","n","c","h">>,
     <<"d","i","n","n","e","r">>,
     <<"b","r","e","a","k","f","a","s","t">>,
     <<"c","a","f","e">>,
     <<"c","o","f","f","e","e">>,
     <<"s","n","a","c","k">>,
     <<"m","e","a","l">>,
     <<"g","r","o","c","e","r","y">>,
     <<"g","r","o","c","e","r","i","e","s">>,
     <<"c","a","t","e","r","i","n","g">>,
     <<"t","a","k","e","o","u","t">>,
     <<"d","e","l","i","v","e","r","y">>,
     <<"f","a","s","t"," ","f","o","o","d">>,
     <<"f","a","s","t","f","o","o","d">>}

\* section 4.4: the keywords of the two roles
AmountKeywordSet ==
    {<<"a","m","o","u","n","t">>,
     <<"c","o","s","t">>,
     <<"p","r","i","c","e">>,
     <<"t","o","t","a","l">>,
     <<"s","u","m">>,
     <<"e","x","p","e","n","s","e">>}

CategoryKeywordSet ==
    {<<"c","a","t","e","g","o","r","y">>,
     <<"t","y","p","e">>,
     <<"d","e","s","c","r","i","p","t","i","o","n">>,
     <<"i","t","e","m">>}

HasAnyOf(s, keywords) == \E k \in keywords : Contains(s, k)

\* the trimmed, lowercased headers
TrimLower(headers) == [i \in 1..Len(headers) |-> lower(strip(headers[i]))]

Matching(headers, keywords) == {i \in 1..Len(headers) : HasAnyOf(headers[i], keywords)}

IsUnresolved(headers, keywords) == Matching(TrimLower(headers), keywords) = {}

\* position of the earliest header that contains a keyword
EarliestIndex(headers, keywords) ==
    CHOOSE i \in Matching(headers, keywords) :
        \A j \in Matching(headers, keywords) : i <= j

\* the earliest header that contains a keyword, None when there is none
Earliest(headers, keywords) ==
    IF Matching(headers, keywords) = {} THEN None
    ELSE headers[EarliestIndex(headers, keywords)]

Reverse(s) == [i \in 1..Len(s) |-> s[Len(s) + 1 - i]]

IsPrefix(s, t) == Len(s) <= Len(t) /\ SubSeq(t, 1, Len(s)) = s

\* the request carries a CSV that parses, with this many data rows or more
HasTable(minRows) ==
    upload.read = "ok" /\ upload.parse = "ok" /\ Len(upload.data) >= minRows

\* section 4.5, steps 5-7 on the raw dataset: the sum, rounded to 2 decimals,
\* of the cleaned amounts (column ja) of the rows whose cleaned category
\* (column jc) is food
RECURSIVE FoodSum(_, _, _)
FoodSum(rows, ja, jc) ==
    IF rows = <<>> THEN Zero
    ELSE LET row == Head(rows)
         IN  IF is_food_category(clean_category(row[jc]))
             THEN DecAdd(clean_amount(row[ja]).value, FoodSum(Tail(rows), ja, jc))
             ELSE FoodSum(Tail(rows), ja, jc)

ExpectedAnswer ==
    round2(FoodSum(upload.data,
                   EarliestIndex(TrimLower(upload.columns), AmountKeywordSet),
                   EarliestIndex(TrimLower(upload.columns), CategoryKeywordSet)))

BothDetected == amount_col # None /\ category_col # None

---------------------------------------------------------------------------
(* The claims *)

\* C1: for every dataset with at least one data row in which an amount
\* column and a different category column are both detected, the request
\* ends with the answer: the sum, rounded to 2 decimals, of clean_amount
\* over exactly the rows whose clean_category is food (0 when there is none).
C1_AnswerIsFoodSum ==
    (pc = "done" /\ HasTable(1) /\ BothDetected /\ amount_col # category_col)
        => outcome = Result(ExpectedAnswer)

\* C1, the part that holds: the same, for datasets in which the two detected
\* names are each the name of one column only after line 120.
C1_AnswerIsFoodSumUniqueNames ==
    (pc = "done" /\ HasTable(1) /\ BothDetected /\ amount_col # category_col
       /\ ColumnCount([columns |-> TrimLower(upload.columns), data |-> <<>>], amount_col) = 1
       /\ ColumnCount([columns |-> TrimLower(upload.columns), data |-> <<>>], category_col) = 1)
        => outcome = Result(ExpectedAnswer)

\* C2: clean_amount never raises, so once both columns are detected no
\* content of an amount cell makes the request end in an error: it ends with
\* a result.
C2_NoErrorOnceDetected ==
    (pc = "done" /\ HasTable(1) /\ BothDetected) => outcome.kind = "result"

\* C2, the part that holds (under SpecAmount): clean_amount returns a number
\* for every cell, and 0.0 whenever the text handed to float() is no numeral.
C2_CleanAmountNeverRaises ==
    unit = "returned" =>
        /\ ret.exc = "none"
        /\ (isna(arg) \/ arg.s = <<>>) => ret.value = Zero
        /\ (~isna(arg) /\ ~float(AmountText(arg)).ok) => ret.value = Zero

\* section 4.1, step 3: the currency symbols
CurrencySymbols == {"$", "€", "£", "¥", "₹"}

\* the token after trimming and removal of the currency symbols and commas
Stripped(x) ==
    SelectSeq(strip(x.s), LAMBDA c : c \notin CurrencySymbols /\ c # ",")

\* an unsigned decimal numeral: digits with at most one decimal point
IsNumeral(d) ==
    /\ d # <<>>
    /\ \A i \in 1..Len(d) : d[i] \in {"0","1","2","3","4","5","6","7","8","9","."}
    /\ Cardinality({i \in 1..Len(d) : d[i] = "."}) <= 1
    /\ d # <<".">>

\* its value: integer part plus fraction
NumeralValue(d) ==
    LET point == IF \E i \in 1..Len(d) : d[i] = "."
                 THEN CHOOSE i \in 1..Len(d) : d[i] = "."
                 ELSE Len(d) + 1
        whole == DigitsToInt(SubSeq(d, 1, point - 1))
        fraction == SubSeq(d, point + 1, Len(d))
    IN  Norm(whole * Pow10(Len(fraction)) + DigitsToInt(fraction), -Len(fraction))

Negated(v) == [m |-> -v.m, e |-> v.e]

IsParenthesisedNumeral(s) ==
    Len(s) >= 3 /\ s[1] = "(" /\ s[Len(s)] = ")" /\ IsNumeral(SubSeq(s, 2, Len(s) - 1))

\* C3: clean_amount trims, removes currency symbols and commas, turns
\* enclosing parentheses into a minus, drops every other character and
\* parses: a token that is then an unsigned numeral d gives the value of d,
\* '(' d ')' gives the negation of d; "$1,234.56" gives 1234.56, "(50.00)"
\* gives -50.0, "€99" gives 99.0, "" gives 0.0 and "n/a" gives 0.0.
C3_CleanAmountValue ==
    (unit = "returned" /\ arg.k = "str") =>
        /\ ret.exc = "none"
        /\ IsNumeral(Stripped(arg)) => ret.value = NumeralValue(Stripped(arg))
        /\ IsParenthesisedNumeral(Stripped(arg)) =>
              ret.value = Negated(NumeralValue(SubSeq(Stripped(arg), 2, Len(Stripped(arg)) - 1)))
        /\ arg = StrCell(<<"$","1",",","2","3","4",".","5","6">>) => ret.value = [m |-> 123456, e |-> -2]
        /\ arg = StrCell(<<"(","5","0",".","0","0",")">>) => ret.value = [m |-> -5, e |-> 1]
        /\ arg = StrCell(<<"€","9","9">>) => ret.value = [m |-> 99, e |-> 0]
        /\ arg = StrCell(<<>>) => ret.value = Zero
        /\ arg = StrCell(<<"n","/","a">>) => ret.value = Zero

\* C3 witness: the parenthesised amount "(50.00)" has been cleaned to -50.0
C3_Witness ==
    /\ unit = "returned"
    /\ arg = StrCell(<<"(","5","0",".","0","0",")">>)
    /\ IsParenthesisedNumeral(Stripped(arg))
    /\ ret.value = [m |-> -5, e |-> 1]

\* C4: over the trimmed, lowercased headers the amount column is the
\* earliest header that contains an amount keyword and the category column
\* the earliest that contains a category keyword; a role is unresolved
\* exactly when no header contains a keyword of its list; the order of the
\* keywords in a list does not change the header chosen.
C4_FirstMatchInHeaderOrder ==
    unit = "returned" =>
        /\ ret.amount = Earliest(TrimLower(arg), AmountKeywordSet)
        /\ ret.category = Earliest(TrimLower(arg), CategoryKeywordSet)
        /\ ret.amount = None <=> Matching(TrimLower(arg), AmountKeywordSet) = {}
        /\ ret.category = None <=> Matching(TrimLower(arg), CategoryKeywordSet) = {}
        /\ FirstMatch(ret.columns, Reverse(amount_keywords)) = ret.amount
        /\ FirstMatch(ret.columns, Reverse(category_keywords)) = ret.category

\* C4 witness: two headers hold amount keywords, the earlier one through a
\* keyword that is not the first of the list, and the earlier one is chosen
C4_Witness ==
    /\ unit = "returned"
    /\ Cardinality(Matching(TrimLower(arg), AmountKeywordSet)) >= 2
    /\ ~Contains(ret.amount, amount_keywords[1])
    /\ \E i \in 1..Len(arg) : Contains(TrimLower(arg)[i], amount_keywords[1])
    /\ ret.amount = TrimLower(arg)[EarliestIndex(TrimLower(arg), AmountKeywordSet)]
    /\ ret.category # None

\* C5: a dataset with data rows and an unresolved role ends in a 400 error
\* naming the missing role, amount first when both are missing, and never
\* in a result; no row is normalized, filtered or summed on the way.
C5_ColumnNotFound ==
    (HasTable(1) /\ (IsUnresolved(upload.columns, AmountKeywordSet)
                     \/ IsUnresolved(upload.columns, CategoryKeywordSet))) =>
        /\ outcome.kind # "result"
        /\ pc \notin {"clean_data", "filter_food", "aggregate", "emit"}
        /\ \A i \in 1..Len(stages) :
              stages[i] \notin {"clean_data", "filter_food", "aggregate", "emit"}
        /\ Len(df.columns) <= Len(upload.columns)
        /\ food_mask = <<>> /\ food_expenses = NoTable /\ total = NaN
        /\ pc = "done" =>
              outcome = Error(400,
                  IF IsUnresolved(upload.columns, AmountKeywordSet)
                  THEN "Could not identify amount column in CSV"
                  ELSE "Could not identify category column in CSV")

\* C5 witness: both roles unresolved, and the error names the amount column
C5_Witness ==
    /\ pc = "done"
    /\ HasTable(1)
    /\ IsUnresolved(upload.columns, AmountKeywordSet)
    /\ IsUnresolved(upload.columns, CategoryKeywordSet)
    /\ outcome = Error(400, "Could not identify amount column in CSV")

StageOrder ==
    <<"decode", "parse", "check_empty", "normalize_headers", "detect_columns",
      "clean_data", "filter_food", "aggregate", "emit">>

\* C6: the stages run in the fixed order and the request stops at the first
\* failing one; a CSV with a header row and no data row fails with the 400
\* empty-input error whatever its headers are, and reaches neither column
\* detection nor an answer.
C6_StageOrderEmptyFirst ==
    /\ IsPrefix(stages, StageOrder)
    /\ pc # "done" => pc = StageOrder[Len(stages) + 1]
    /\ outcome.kind = "error" => pc = "done"
    /\ (HasTable(0) /\ upload.data = <<>>) =>
          /\ \A i \in 1..Len(stages) : stages[i] # "detect_columns"
          /\ amount_col = None /\ category_col = None
          /\ outcome.kind # "result"
          /\ pc = "done" =>
                /\ outcome = Error(400, "CSV file contains no data")
                /\ stages = <<"decode", "parse", "check_empty">>

\* C6 witness: a header-only CSV without amount or category header has
\* ended in the empty-input error
C6_Witness ==
    /\ pc = "done"
    /\ HasTable(0) /\ upload.data = <<>>
    /\ IsUnresolved(upload.columns, AmountKeywordSet)
    /\ IsUnresolved(upload.columns, CategoryKeywordSet)
    /\ outcome = Error(400, "CSV file contains no data")

\* C7: is_food_category(c) holds iff the normalized category c contains one
\* of the 17 keywords as a substring; the empty category is not food; the
\* exact-match test gives nothing the substring scan does not give.
C7_FoodIffKeywordSubstring ==
    unit \in {"clean_category_again", "returned"} =>
        /\ ret.food <=> HasAnyOf(ret.category, FoodKeywordSet)
        /\ ret.category = <<>> => ~ret.food
        /\ ret.food <=> AnyKeywordIn(food_keywords, ret.category)
        /\ Cardinality(FoodKeywordSet) = 17 /\ Len(food_keywords) = 17

\* C7 witness: "Seafood Market" is food through the substring "food"
C7_Witness ==
    /\ unit = "returned"
    /\ ret.category = <<"s","e","a","f","o","o","d"," ","m","a","r","k","e","t">>
    /\ ret.category \notin FoodKeywordSet
    /\ ret.food

\* lowercase, no whitespace at either end, no two whitespace characters in
\* a row
IsTrimmedLowerNoRuns(s) ==
    /\ \A i \in 1..Len(s) : LowerChar(s[i]) = s[i]
    /\ s # <<>> => ~IsSpace(s[1]) /\ ~IsSpace(s[Len(s)])
    /\ \A i \in 1..(Len(s) - 1) : ~(IsSpace(s[i]) /\ IsSpace(s[i + 1]))

\* lowercase and single-spaced: as above, and the only whitespace is the
\* space character
IsCanonical(s) ==
    /\ IsTrimmedLowerNoRuns(s)
    /\ \A i \in 1..Len(s) : IsSpace(s[i]) => s[i] = " "

\* C8 as stated: the output of clean_category is lowercase, has no
\* whitespace at either end and no run of more than one whitespace
\* character, is empty for a missing value, is left unchanged by a second
\* clean_category, and every category that is already lowercase, trimmed
\* and free of whitespace runs is returned unchanged.
C8_AnyCanonicalUnchanged ==
    unit = "returned" =>
        /\ IsTrimmedLowerNoRuns(ret.category)
        /\ isna(arg) => ret.category = <<>>
        /\ ret.again = ret.category
        /\ (arg.k = "str" /\ IsTrimmedLowerNoRuns(arg.s)) => ret.category = arg.s

\* C8 as amended: the output of clean_category is lowercase and
\* single-spaced (no whitespace at either end, whitespace only as single
\* space characters), is empty for a missing value, is left unchanged by a
\* second clean_category, and a category already in that form is returned
\* unchanged.
C8_CleanCategoryCanonical ==
    unit = "returned" =>
        /\ IsCanonical(ret.category)
        /\ isna(arg) => ret.category = <<>>
        /\ ret.again = ret.category
        /\ (arg.k = "str" /\ IsCanonical(arg.s)) => ret.category = arg.s

\* C8 witness: a category with upper case, a run of whitespace and
\* whitespace at both ends has been normalized, and normalized again
C8_Witness ==
    /\ unit = "returned"
    /\ arg = StrCell(<<" ","F","a","s","t","\t","F","o","o","d"," ">>)
    /\ ret.category = <<"f","a","s","t"," ","f","o","o","d">>
    /\ ret.again = ret.category

\* C9: a request ends in exactly one of a result, a 400 classified error or
\* a 500 internal error; a classified error raised by the parse, empty-check
\* or column-detection stage reaches the caller with its own status and
\* message, and only an unclassified fault becomes the internal error.
C9_OneOutcomeNoRewrap ==
    /\ pc # "done" =>
          /\ outcome = NoOutcome /\ raised = NoException
          /\ \E i \in 1..Len(StageOrder) : pc = StageOrder[i]
    /\ pc = "done" =>
          \/ /\ outcome.kind = "result" /\ outcome.status = 200
             /\ raised = NoException
          \/ /\ outcome.kind = "error" /\ outcome.status = 400
             /\ raised = HTTPException(400, outcome.detail)
             /\ stages[Len(stages)] \in {"parse", "check_empty", "detect_columns"}
          \/ /\ outcome.kind = "error" /\ outcome.status = 500
             /\ raised.type \notin {"none", "HTTPException"}
    /\ raised.type = "HTTPException" => outcome = Error(raised.status, raised.detail)

\* C9 witness: a classified error of the column-detection stage has reached
\* the caller as a 400
C9_Witness ==
    /\ pc = "done"
    /\ stages[Len(stages)] = "detect_columns"
    /\ raised = HTTPException(400, "Could not identify category column in CSV")
    /\ outcome = Error(400, "Could not identify category column in CSV")

\* C10: when one header is selected for both roles the rows still get a
\* numeric amount and a canonical category from that column, the derived
\* amounts are not replaced by the derived categories, and the request ends
\* with the numeric sum of the amounts of the food rows, not in an internal
\* error.
C10_SameColumnNumericSum ==
    (pc = "done" /\ HasTable(1) /\ BothDetected /\ amount_col = category_col) =>
        outcome = Result(ExpectedAnswer)

===========================================================================
